---------------------------- MODULE Spec2Model ----------------------------
(***************************************************************************)
(* One-time passcode generators of otp-rs (crates/lib).                    *)
(*                                                                         *)
(*   lib.rs   the Hotp struct (counter, key, len) with get_value, and the  *)
(*            helpers hmac, dt, dt_substr, dt_offset                       *)
(*   hotp.rs  Counter, the counting byte source of Otp<Counter>            *)
(*   totp.rs  Time, the clock-driven byte source of Otp<Time>              *)
(*                                                                         *)
(* The generic engine Otp<T>::get that hotp.rs and totp.rs import from the *)
(* crate root is not among the source files; Otp_get below follows the     *)
(* design document's section 4.2 and reuses the helpers of lib.rs.         *)
(*                                                                         *)
(* Number representation.  TLC's integers are 32-bit signed, so            *)
(*   u8   is an integer 0..255,                                            *)
(*   u32  is a record [hi, lo] of two 16-bit halves,                       *)
(*   u64  is a tuple <<l0, l1, l2, l3>> of four 16-bit limbs, least        *)
(*        significant first,                                               *)
(*   [u8; n] is a tuple of n bytes; Rust index i is TLA+ index i + 1.      *)
(* Time is counted in ticks, TicksPerSec of them to the second, so that a  *)
(* Duration has a sub-second part for as_secs() to drop.                   *)
(***************************************************************************)
EXTENDS Integers, Sequences, FiniteSets

VARIABLES
    otp,            \* the generator struct: Hotp (lib.rs), Otp<Counter> or Otp<Time>
    built,          \* the struct as the constructor returned it (history)
    clock,          \* what the injected `now` closure returns, in ticks
    overflowChecks, \* build profile: TRUE when integer overflow panics (debug)
    keyAccepted,    \* whether the keyed-hash primitive accepts the key
    oracle,         \* HMAC-SHA1 values handed out so far for untabulated inputs
    log,            \* the calls that returned, in order
    abort,          \* "none", or the panic that ended the process
    hs,             \* a 20-byte digest given to the truncation functions
    trunc           \* what the truncation functions returned for hs

vars == <<otp, built, clock, overflowChecks, keyAccepted, oracle, log, abort, hs, trunc>>

-----------------------------------------------------------------------------
(* Bounds of the model *)

\* calls made on one counter generator
MaxCalls == 10
\* calls made on one time generator
MaxTimeCalls == 2
\* untabulated HMAC inputs one run may query
MaxSampled == 2
\* the clock runs from t0 to t0 + MaxElapsedSecs seconds
MaxElapsedSecs == 3
\* clock resolution
TicksPerSec == 2

-----------------------------------------------------------------------------
(* Fixed-width arithmetic *)

Byte == 0..255

RECURSIVE BitAnd(_, _)
BitAnd(a, b) ==
    IF a = 0 \/ b = 0 THEN 0
    ELSE (a % 2) * (b % 2) + 2 * BitAnd(a \div 2, b \div 2)

\* u64 from a small natural
U64(n) == <<n % 65536, n \div 65536, 0, 0>>

U64_MAX == <<65535, 65535, 65535, 65535>>

\* x + 1 without the width check: [val, overflow]
U64Succ(x) ==
    LET c1 == IF x[1] = 65535 THEN 1 ELSE 0
        c2 == IF c1 = 1 /\ x[2] = 65535 THEN 1 ELSE 0
        c3 == IF c2 = 1 /\ x[3] = 65535 THEN 1 ELSE 0
        c4 == IF c3 = 1 /\ x[4] = 65535 THEN 1 ELSE 0
    IN  [val |-> << (x[1] + 1) % 65536, (x[2] + c1) % 65536,
                    (x[3] + c2) % 65536, (x[4] + c3) % 65536 >>,
         overflow |-> c4 = 1]

\* u64::to_be_bytes
to_be_bytes(x) ==
    << x[4] \div 256, x[4] % 256, x[3] \div 256, x[3] % 256,
       x[2] \div 256, x[2] % 256, x[1] \div 256, x[1] % 256 >>

\* the bytes read least significant first, as u32::from_le_bytes does
from_le_bytes(b) == [hi |-> b[4] * 256 + b[3], lo |-> b[2] * 256 + b[1]]

\* u32::from_be_bytes
from_be_bytes(b) == [hi |-> b[1] * 256 + b[2], lo |-> b[3] * 256 + b[4]]

\* (a + b) % m for 0 <= a, b < m < 2^31, without leaving 31 bits
AddMod(a, b, m) ==
    LET t == a - (m - b)
    IN  IF t >= 0 THEN t ELSE a + b

\* x % m for a u32 x and a modulus 0 < m < 2^31:
\* x = 2 * (hi * 2^15) + lo, and hi * 2^15 < 2^31
U32Rem(x, m) ==
    LET half == (x.hi * 32768) % m
    IN  AddMod(AddMod(half, half, m), x.lo % m, m)

\* x * 10 in u32: [val, overflow]
U32Mul10(x) ==
    LET lo10 == x.lo * 10
        hi10 == x.hi * 10 + lo10 \div 65536
    IN  [val |-> [hi |-> hi10 % 65536, lo |-> lo10 % 65536],
         overflow |-> hi10 >= 65536]

\* 10_u32.pow(n): [val, overflow], the value wrapped modulo 2^32
RECURSIVE U32Pow10(_)
U32Pow10(n) ==
    IF n = 0 THEN [val |-> [hi |-> 0, lo |-> 1], overflow |-> FALSE]
    ELSE LET p == U32Pow10(n - 1)
             q == U32Mul10(p.val)
         IN  [val |-> q.val, overflow |-> p.overflow \/ q.overflow]

-----------------------------------------------------------------------------
(* Dynamic truncation (lib.rs) *)

NoPanic == "none"

\* a mask one bit too wide
dt_offset_5bits(h) == BitAnd(h[19 + 1], 31)

\* fn dt_offset(hs: &[u8; 20]) -> u8
dt_offset(h) == BitAnd(h[19 + 1], 15)

\* fn dt_substr(hs: &[u8; 20], offset: u8) -> [u8; 4]
\* `offset + 4` is u8 arithmetic; the range indexes a 20-byte array; the
\* slice converts to [u8; 4] only if it has four elements.
dt_substr(h, offset) ==
    LET sum  == offset + 4
        end  == sum % 256
    IN  IF sum > 255 /\ overflowChecks
          THEN [panic |-> "add_overflow", val |-> <<>>]
        ELSE IF offset > end
          THEN [panic |-> "slice_index_order", val |-> <<>>]
        ELSE IF end > Len(h)
          THEN [panic |-> "slice_end_index", val |-> <<>>]
        ELSE LET substr == SubSeq(h, offset + 1, end)
             IN  IF Len(substr) # 4
                   THEN [panic |-> "unwrap", val |-> <<>>]
                   ELSE [panic |-> NoPanic, val |-> substr]

\* the window returned as it is, the mask forgotten
dt_unmasked(h) == dt_substr(h, dt_offset(h))

\* fn dt(hs: &[u8; 20]) -> [u8; 4]
dt(h) ==
    LET offset == dt_offset(h)
        substr == dt_substr(h, offset)
    IN  IF substr.panic # NoPanic THEN substr
        ELSE [panic |-> NoPanic,
              val |-> [substr.val EXCEPT ![1] = BitAnd(@, 127)]]


-----------------------------------------------------------------------------
(* HMAC-SHA1.  The primitive is the hmac and sha1 crates'; what the model *)
(* knows of it is the table of lib.rs's test it_computes_correct_hmac.     *)
(* For any other input the digest is some 20 bytes, the same ones each     *)
(* time the input recurs: the first query draws it from SamplePool and     *)
(* `oracle` keeps it.  new_from_slice returns a Result; Hmac<Sha1> accepts *)
(* every key (keyAccepted = TRUE, specification Spec), and SpecHmacErr     *)
(* adds a primitive that rejects the key, which is the only way to the     *)
(* HmacError path of get_value.                                            *)

RfcKey == "12345678901234567890"
OtherKey == "other-secret"

\* #[test_case(counter, digest)] of it_computes_correct_hmac, counters 0..9
HmacTable ==
    << <<204, 147, 207, 24, 80, 141, 148, 147, 76, 100, 182, 93, 139, 167, 102, 127, 183, 205, 228, 176>>,
       <<117, 164, 138, 25, 212, 203, 225, 0, 100, 78, 138, 193, 57, 126, 234, 116, 122, 45, 51, 171>>,
       <<11, 172, 183, 250, 8, 47, 239, 48, 120, 34, 17, 147, 139, 193, 197, 231, 4, 22, 255, 68>>,
       <<102, 194, 130, 39, 208, 58, 45, 85, 41, 38, 47, 240, 22, 161, 230, 239, 118, 85, 126, 206>>,
       <<169, 4, 201, 0, 166, 75, 53, 144, 152, 116, 179, 62, 97, 197, 147, 138, 142, 21, 237, 28>>,
       <<163, 126, 120, 61, 123, 114, 51, 192, 131, 212, 246, 41, 38, 199, 162, 95, 35, 141, 3, 22>>,
       <<188, 156, 210, 133, 97, 4, 44, 131, 242, 25, 50, 77, 60, 96, 114, 86, 192, 50, 114, 174>>,
       <<164, 251, 150, 12, 11, 192, 110, 30, 171, 184, 4, 229, 179, 151, 205, 196, 180, 85, 150, 250>>,
       <<27, 60, 137, 246, 94, 108, 158, 136, 48, 18, 5, 40, 35, 68, 63, 4, 139, 67, 50, 219>>,
       <<22, 55, 64, 152, 9, 166, 121, 220, 105, 130, 7, 49, 12, 140, 127, 192, 114, 144, 217, 229>> >>

\* the digest of it_computes_correct_offset and it_computes_correct_4byte_substring
TestDigestA ==
    <<31, 134, 152, 105, 14, 2, 202, 22, 97, 133, 80, 239, 127, 25, 218, 142, 148, 91, 85, 90>>

\* the digest of it_computes_correct_dt
TestDigestB ==
    <<31, 134, 152, 105, 14, 2, 202, 22, 97, 133, 255, 239, 127, 25, 218, 142, 148, 91, 85, 90>>

SamplePool == {TestDigestA, TestDigestB}

Tabulated(key, msg) ==
    /\ key = RfcKey
    /\ \A i \in 1..7 : msg[i] = 0
    /\ msg[8] < Len(HmacTable)

Sampled(key, msg) == \E e \in oracle : e.key = key /\ e.msg = msg

\* the digests HMAC-SHA1(key, msg) may turn out to be, given what is known
Digests(key, msg) ==
    IF Tabulated(key, msg) THEN {HmacTable[msg[8] + 1]}
    ELSE IF Sampled(key, msg)
      THEN {e.hs : e \in {x \in oracle : x.key = key /\ x.msg = msg}}
    ELSE IF Cardinality(oracle) < MaxSampled THEN SamplePool
    ELSE {}

\* Sha1Hmac::new_from_slice(key)?; mac.update(msg); mac.finalize(): the
\* results the primitive may give
Sha1Hmac(key, msg) ==
    IF ~keyAccepted THEN {[ok |-> FALSE, hs |-> <<>>]}
    ELSE {[ok |-> TRUE, hs |-> d] : d \in Digests(key, msg)}

\* fn hmac(key: String, counter: u64) -> Result<[u8; 20]>
hmac(key, counter) == Sha1Hmac(key, to_be_bytes(counter))

\* what a call adds to the oracle
Learn(key, msg, r) ==
    IF r.ok /\ ~Tabulated(key, msg)
      THEN oracle \cup {[key |-> key, msg |-> msg, hs |-> r.hs]}
      ELSE oracle

-----------------------------------------------------------------------------
(* Steps 3..6 shared by both engines: truncate, convert, reduce *)

\* snum returned without the reduction
Reduce_without_rem(h, digits) ==
    LET sbits == dt(h)
        snum  == from_be_bytes(sbits.val)
    IN  IF sbits.panic # NoPanic THEN [panic |-> sbits.panic, code |-> -1]
        ELSE [panic |-> NoPanic, code |-> snum.hi * 65536 + snum.lo]

\* snum % 10_u32.pow(digits), after dt and u32::from_be_bytes
Reduce(h, digits) ==
    LET sbits == dt(h)
        pow   == U32Pow10(digits)
        m     == pow.val.hi * 65536 + pow.val.lo
    IN  IF sbits.panic # NoPanic THEN [panic |-> sbits.panic, code |-> -1]
        ELSE IF pow.overflow /\ overflowChecks
          THEN [panic |-> "pow_overflow", code |-> -1]
        ELSE IF m = 0 THEN [panic |-> "rem_by_zero", code |-> -1]
        ELSE [panic |-> NoPanic, code |-> U32Rem(from_be_bytes(sbits.val), m)]

-----------------------------------------------------------------------------
(* The Hotp struct of lib.rs *)

\* pub fn new(key: String, counter: u64, len: u32) -> Self
Hotp_new(key, counter, len) ==
    [ty |-> "Hotp", counter |-> counter, key |-> key, len |-> len]

\* fn increment_counter(&mut self): self.counter += 1
increment_counter(self) ==
    LET s == U64Succ(self.counter)
    IN  IF s.overflow /\ overflowChecks
          THEN [panic |-> "add_overflow", self |-> self]
          ELSE [panic |-> NoPanic, self |-> [self EXCEPT !.counter = s.val]]

Returned(self, ret, code, mf, r) ==
    [self |-> self, ret |-> ret, panic |-> NoPanic, code |-> code, mf |-> mf, mac |-> r]

Panicked(self, why, mf, r) ==
    [self |-> self, ret |-> "panic", panic |-> why, code |-> -1, mf |-> mf, mac |-> r]

\* pub fn get_value(&mut self) -> Result<u32>, for one result r of hmac
get_value_with(self, r) ==
    LET mf == to_be_bytes(self.counter)
    IN  IF ~r.ok THEN Returned(self, "err", -1, mf, r)
        ELSE LET sbits == dt(r.hs)
                 inc   == increment_counter(self)
                 red   == Reduce(r.hs, self.len)
             IN  IF sbits.panic # NoPanic THEN Panicked(self, sbits.panic, mf, r)
                 ELSE IF inc.panic # NoPanic THEN Panicked(inc.self, inc.panic, mf, r)
                 ELSE IF red.panic # NoPanic THEN Panicked(inc.self, red.panic, mf, r)
                 ELSE Returned(inc.self, "ok", red.code, mf, r)

\* pub fn get_value(&mut self) -> Result<u32>: every outcome the call may have
get_value(self) == {get_value_with(self, r) : r \in hmac(self.key, self.counter)}

-----------------------------------------------------------------------------
(* The byte sources of hotp.rs and totp.rs *)

\* impl Hotp { pub fn new(key, initial_count, length) } of hotp.rs
Otp_Hotp_new(key, initial_count, length) ==
    [ty |-> "OtpCounter", key |-> key,
     generator |-> [count |-> initial_count], digits |-> length]

\* the counter advanced by 2
Counter_to_bytes_skips(g) ==
    LET c == g.count
        s == U64Succ(U64Succ(g.count).val)
    IN  [panic |-> NoPanic, g |-> [g EXCEPT !.count = s.val], bytes |-> to_be_bytes(c)]

\* impl ToBytes for Counter: let c = self.count; self.count += 1; Ok(c.to_be_bytes())
Counter_to_bytes(g) ==
    LET c == g.count
        s == U64Succ(g.count)
    IN  IF s.overflow /\ overflowChecks
          THEN [panic |-> "add_overflow", g |-> g, bytes |-> <<>>]
          ELSE [panic |-> NoPanic, g |-> [g EXCEPT !.count = s.val],
                bytes |-> to_be_bytes(c)]

\* Totp::new_with_now(key, t0, step, digits, now); `now` is the clock
Totp_new_with_now(key, t0, step, digits) ==
    [ty |-> "OtpTime", key |-> key,
     generator |-> [t0 |-> t0, step |-> step], digits |-> digits]

\* Duration::as_secs: whole seconds of a duration in ticks
as_secs(elapsed) == elapsed \div TicksPerSec

\* the steps counted from the Unix epoch instead of t0
Time_to_bytes_from_zero(g) ==
    IF g.step = 0
      THEN [panic |-> "div_by_zero", g |-> g, bytes |-> <<>>]
      ELSE [panic |-> NoPanic, g |-> g,
            bytes |-> to_be_bytes(U64(as_secs(clock) \div g.step))]

\* the reading kept as the new t0
Time_to_bytes_restamps(g) ==
    IF g.step = 0
      THEN [panic |-> "div_by_zero", g |-> g, bytes |-> <<>>]
      ELSE [panic |-> NoPanic, g |-> [g EXCEPT !.t0 = clock],
            bytes |-> to_be_bytes(U64(as_secs(clock - g.t0) \div g.step))]

\* impl ToBytes for Time, reading `now` from the clock
\* (the clock never shows a time before t0: `now - t0` is then outside
\* what unix_time's Instant subtraction is defined for)
Time_to_bytes(g) ==
    LET t0      == g.t0
        now     == clock
        elapsed == now - t0
    IN  IF g.step = 0
          THEN [panic |-> "div_by_zero", g |-> g, bytes |-> <<>>]
          ELSE [panic |-> NoPanic, g |-> g,
                bytes |-> to_be_bytes(U64(as_secs(elapsed) \div g.step))]

\* ToBytes::to_bytes, dispatched on the generator's type
to_bytes(self) ==
    IF self.ty = "OtpCounter" THEN Counter_to_bytes(self.generator)
    ELSE Time_to_bytes(self.generator)

-----------------------------------------------------------------------------
(* The engine Otp<T>::get, after section 4.2 of the design document:       *)
(* produce the moving factor, HMAC it, truncate, reduce.                   *)

Otp_get_with(self, tb, r) ==
    LET after == [self EXCEPT !.generator = tb.g]
    IN  IF ~r.ok THEN Returned(after, "err", -1, tb.bytes, r)
        ELSE LET red == Reduce(r.hs, self.digits)
             IN  IF red.panic # NoPanic THEN Panicked(after, red.panic, tb.bytes, r)
                 ELSE Returned(after, "ok", red.code, tb.bytes, r)

Otp_get(self) ==
    LET tb == to_bytes(self)
    IN  IF tb.panic # NoPanic
          THEN {Panicked(self, tb.panic, <<>>, [ok |-> FALSE, hs |-> <<>>])}
          ELSE {Otp_get_with(self, tb, r) : r \in Sha1Hmac(self.key, tb.bytes)}

-----------------------------------------------------------------------------
(* The generators a run may construct *)

\* counters a generator starts from: the tabulated ones, a limb carry, and
\* the last two values of u64
CounterChoices ==
    {U64(n) : n \in 0..(Len(HmacTable) - 1)}
      \cup {U64(65535), <<65534, 65535, 65535, 65535>>, U64_MAX}

DigitChoices == {1, 6, 9, 10}

TimeDigitChoices == {6, 8}

\* epochs, in ticks: the Unix epoch and one that is not on a whole second
EpochChoices == {0, TicksPerSec + 1}

StepChoices == {0, 1, 2, 3}

Generators ==
    {Hotp_new(k, c, d) : k \in {RfcKey, OtherKey}, c \in CounterChoices, d \in DigitChoices}
      \cup {Otp_Hotp_new(k, c, d) :
              k \in {RfcKey, OtherKey}, c \in CounterChoices, d \in DigitChoices}
      \cup {Totp_new_with_now(RfcKey, t, s, d) :
              t \in EpochChoices, s \in StepChoices, d \in TimeDigitChoices}

IsCounter(g) == g.ty \in {"Hotp", "OtpCounter"}

\* the stored counter of a counter generator
CounterOf(g) == IF g.ty = "Hotp" THEN g.counter ELSE g.generator.count

NotRun == [fn |-> "none"]

InitWith(accepted) ==
    /\ otp \in Generators
    /\ built = otp
    /\ clock = (IF otp.ty = "OtpTime" THEN otp.generator.t0 ELSE 0)
    /\ overflowChecks \in BOOLEAN
    /\ keyAccepted \in accepted
    /\ oracle = {}
    /\ log = <<>>
    /\ abort = NoPanic
    /\ hs = TestDigestA
    /\ trunc = NotRun

\* Hmac<Sha1> takes a key of any length: new_from_slice returns Ok
Init == InitWith({TRUE})

\* a keyed-hash primitive that may reject the key with InvalidLength
InitHmacErr == InitWith(BOOLEAN)

\* the effect of one call with outcome out
Finish(out) ==
    /\ otp' = out.self
    /\ oracle' = Learn(otp.key, out.mf, out.mac)
    /\ IF out.ret = "panic"
         THEN abort' = out.panic /\ log' = log
         ELSE abort' = abort
              /\ log' = Append(log, [ret |-> out.ret, code |-> out.code,
                                     mf |-> out.mf, at |-> clock])
    /\ UNCHANGED <<built, clock, overflowChecks, keyAccepted, hs, trunc>>

\* a call of Hotp::get_value (lib.rs)
CallGetValue ==
    /\ otp.ty = "Hotp"
    /\ abort = NoPanic
    /\ Len(log) < MaxCalls
    /\ \E out \in get_value(otp) : Finish(out)

\* a call of Otp<Counter>::get
CallHotpGet ==
    /\ otp.ty = "OtpCounter"
    /\ abort = NoPanic
    /\ Len(log) < MaxCalls
    /\ \E out \in Otp_get(otp) : Finish(out)

\* a call of Otp<Time>::get
CallTotpGet ==
    /\ otp.ty = "OtpTime"
    /\ abort = NoPanic
    /\ Len(log) < MaxTimeCalls
    /\ \E out \in Otp_get(otp) : Finish(out)

\* the clock the `now` closure reads shows another time, not before t0
ClockMoves ==
    /\ otp.ty = "OtpTime"
    /\ abort = NoPanic
    /\ \E e \in 0..(MaxElapsedSecs * TicksPerSec) :
         /\ clock # otp.generator.t0 + e
         /\ clock' = otp.generator.t0 + e
    /\ UNCHANGED <<otp, built, overflowChecks, keyAccepted, oracle, log, abort, hs, trunc>>

Next == CallGetValue \/ CallHotpGet \/ CallTotpGet \/ ClockMoves

Spec == Init /\ [][Next]_vars

SpecHmacErr == InitHmacErr /\ [][Next]_vars

-----------------------------------------------------------------------------
(* The truncation functions on their own, over a pool of digests *)

BaseDigests == {HmacTable[i] : i \in 1..Len(HmacTable)} \cup {TestDigestA, TestDigestB}

\* first bytes a window may have
WindowHeads == {0, 127, 128, 255}

\* d with the low four bits of its last byte set to o and byte o set to b
Variant(d, o, b) == [d EXCEPT ![20] = (@ \div 16) * 16 + o, ![o + 1] = b]

DigestPool ==
    BaseDigests \cup {Variant(d, o, b) : d \in BaseDigests, o \in 0..15, b \in WindowHeads}

\* offsets dt_substr is tried at besides the one dt_offset returns
OffsetProbes == {0, 15, 16, 17, 20, 251, 252, 255}

InitDt ==
    /\ hs \in DigestPool
    /\ trunc = NotRun
    /\ overflowChecks \in BOOLEAN
    /\ otp = Hotp_new(RfcKey, U64(0), 6)
    /\ built = otp
    /\ clock = 0
    /\ keyAccepted = TRUE
    /\ oracle = {}
    /\ log = <<>>
    /\ abort = NoPanic

DtFrame == UNCHANGED <<otp, built, clock, overflowChecks, keyAccepted, oracle, log, abort, hs>>

\* dt_offset, dt_substr at that offset, dt and the conversion, as get_value chains them
RunDt ==
    /\ trunc = NotRun
    /\ trunc' = [fn |-> "dt", offset |-> dt_offset(hs),
                 substr |-> dt_substr(hs, dt_offset(hs)),
                 sbits |-> dt(hs),
                 snum |-> IF dt(hs).panic = NoPanic
                            THEN from_be_bytes(dt(hs).val) ELSE [hi |-> 0, lo |-> 0]]
    /\ DtFrame

\* dt_substr at an offset of the caller's
RunDtSubstr ==
    /\ trunc = NotRun
    /\ \E o \in OffsetProbes :
         trunc' = [fn |-> "dt_substr", offset |-> o, substr |-> dt_substr(hs, o)]
    /\ DtFrame

NextDt == RunDt \/ RunDtSubstr

SpecDt == InitDt /\ [][NextDt]_vars

-----------------------------------------------------------------------------
(* Vocabulary of the properties *)

\* x + n in u64, wrapping
RECURSIVE U64Add(_, _)
U64Add(x, n) == IF n = 0 THEN x ELSE U64Add(U64Succ(x).val, n - 1)

KeyOf(g) == g.key

DigitsOf(g) == IF g.ty = "Hotp" THEN g.len ELSE g.digits

\* a generator of g's type, key and digits constructed with counter c
Fresh(g, c) ==
    IF g.ty = "Hotp" THEN Hotp_new(g.key, c, g.len)
    ELSE Otp_Hotp_new(g.key, c, g.digits)

\* the outcomes of one passcode generation on g
Generate(g) == IF g.ty = "Hotp" THEN get_value(g) ELSE Otp_get(g)

\* the clock reading `at` lies in the n-th step-sized window after t0
InWindow(n, at) ==
    LET S == built.generator.step * TicksPerSec
        e == at - built.generator.t0
    IN  n * S <= e /\ e < (n + 1) * S

\* the u64 below 2^16 that eight big-endian bytes encode, or -1
SmallU64(bytes) ==
    IF \A j \in 1..6 : bytes[j] = 0 THEN bytes[7] * 256 + bytes[8] ELSE -1

\* the codes of RFC 4226 appendix D, counters 0..9, as the tests list them
RfcCodes == <<755224, 287082, 359152, 969429, 338314, 254676, 287922, 162583, 399871, 520489>>

-----------------------------------------------------------------------------
(* Properties *)

\* C1: a counter generator built with counter k uses moving factor k+i-1 for
\* its i-th successful generation and then stores k+i; the i-th code is the
\* code a fresh generator built with counter k+i-1 returns on its first call.
C1_CounterSequence ==
    IsCounter(built) =>
      /\ \A i \in 1..Len(log) :
           log[i].ret = "ok" =>
             LET ki == U64Add(CounterOf(built), i - 1)
             IN  /\ log[i].mf = to_be_bytes(ki)
                 /\ Generate(Fresh(built, ki)) # {}
                 /\ \A out \in Generate(Fresh(built, ki)) :
                      out.ret = "ok" /\ out.code = log[i].code
      /\ (abort = NoPanic /\ keyAccepted) =>
           CounterOf(otp) = U64Add(CounterOf(built), Len(log))

\* an Otp<Counter> started at 8 has generated four codes, the last two
\* from untabulated digests
C1_Witness ==
    /\ otp.ty = "OtpCounter"
    /\ CounterOf(built) = U64(8)
    /\ Len(log) = 4
    /\ \A i \in 1..4 : log[i].ret = "ok"
    /\ CounterOf(otp) = U64(12)

\* C2: with step S > 0, a call made when whole seconds a have elapsed since
\* t0 uses moving factor floor(a / S), the n with n*S <= a < (n+1)*S; calls
\* in the same window use the same moving factor and return the same code,
\* in any order.  (In ticks: a reading e ticks after t0 lies in window n when
\* n*S seconds <= e < (n+1)*S seconds.)
C2_TimeWindow ==
    (built.ty = "OtpTime" /\ built.generator.step > 0) =>
      /\ \A i \in 1..Len(log) :
           SmallU64(log[i].mf) >= 0 /\ InWindow(SmallU64(log[i].mf), log[i].at)
      /\ \A i, j \in 1..Len(log) :
           InWindow(SmallU64(log[i].mf), log[j].at)
             => (log[i].mf = log[j].mf /\ log[i].code = log[j].code
                   /\ log[i].ret = log[j].ret)

\* two calls at different whole seconds of one window of a 3-second step,
\* the later reading first, with an epoch off the whole second
C2_Witness ==
    /\ built.ty = "OtpTime"
    /\ built.generator.step = 3
    /\ built.generator.t0 = TicksPerSec + 1
    /\ Len(log) = 2
    /\ log[1].at = built.generator.t0 + 2 * TicksPerSec
    /\ log[2].at = built.generator.t0
    /\ log[1].ret = "ok" /\ log[1].code = log[2].code

\* C3: with 10^digits representable in u32 (digits <= 9), every code
\* returned is at least 0 and below 10^digits.
C3_CodeRange ==
    DigitsOf(built) <= 9 =>
      \A i \in 1..Len(log) :
        log[i].ret = "ok" => (0 <= log[i].code /\ log[i].code < 10 ^ DigitsOf(built))

\* a nine-digit code that needs all nine digits
C3_Witness ==
    /\ DigitsOf(built) = 9
    /\ Len(log) > 0
    /\ log[1].ret = "ok"
    /\ log[1].code >= 10 ^ 8

\* C4: with the RFC key and 6 digits the counters 0..9 give the RFC's codes,
\* as the first call of a generator built with that counter and as the
\* calls of a generator built with an earlier one; truncating and reducing
\* the ten tabulated digests gives these codes.
C4_KnownAnswers ==
    (IsCounter(built) /\ KeyOf(built) = RfcKey /\ DigitsOf(built) = 6) =>
      /\ \A n \in 0..9 : Reduce(HmacTable[n + 1], 6).code = RfcCodes[n + 1]
      /\ \A i \in 1..Len(log) : \A n \in (i - 1)..9 :
           CounterOf(built) = U64(n - (i - 1)) =>
             (log[i].ret = "ok" /\ log[i].code = RfcCodes[n + 1])

\* one generator built with counter 0 has been called ten times
C4_Witness ==
    /\ otp.ty = "OtpCounter"
    /\ KeyOf(built) = RfcKey /\ DigitsOf(built) = 6
    /\ CounterOf(built) = U64(0)
    /\ Len(log) = 10
    /\ log[10].code = 520489

\* C5: at counter 2^64 - 1 a generation succeeds with moving factor
\* 2^64 - 1 and leaves the counter at 0; the increment never aborts, and
\* the next generation uses moving factor 0.
C5_WrapsAtMax ==
    IsCounter(built) =>
      /\ abort # "add_overflow"
      /\ \A i \in 1..Len(log) :
           log[i].mf = to_be_bytes(U64_MAX) =>
             /\ log[i].ret = "ok"
             /\ i = Len(log) => CounterOf(otp) = U64(0)
             /\ i < Len(log) => log[i + 1].mf = to_be_bytes(U64(0))

C7_ZeroStepHarmless ==
    (built.ty = "OtpTime" /\ built.generator.step = 0) =>
      /\ abort = NoPanic
      /\ \A i \in 1..Len(log) : log[i].mf = to_be_bytes(U64(0))

\* C8: a step changes nothing of the generator but a counter generator's
\* counter: type, key and digits stay, and a time generator's t0 and step
\* stay, whether the call returns a code or an error.
C8_Frame ==
    [][ /\ otp'.ty = otp.ty
        /\ KeyOf(otp') = KeyOf(otp)
        /\ DigitsOf(otp') = DigitsOf(otp)
        /\ otp.ty = "OtpTime" => otp' = otp
        /\ otp.ty = "Hotp" => otp' = [otp EXCEPT !.counter = otp'.counter]
        /\ otp.ty = "OtpCounter" =>
             otp' = [otp EXCEPT !.generator.count = otp'.generator.count] ]_vars

\* a time generator after a failed call and a later one in another second
C8_Witness ==
    /\ otp.ty = "OtpTime"
    /\ otp.generator.step = 1
    /\ Len(log) = 2
    /\ log[1].ret = "err"
    /\ log[1].at # log[2].at
    /\ log[1].mf # log[2].mf

\* C9: the offset is the low four bits of the last byte, in 0..15; the
\* window is the bytes at offset .. offset+3, offset+3 <= 18; the slice and
\* its conversion succeed and offset + 4 fits a byte.
C9_WindowInBounds ==
    trunc.fn = "dt" =>
      LET o == trunc.offset
      IN  /\ o \in 0..15
          /\ o = hs[20] % 16
          /\ o + 3 <= 18
          /\ o + 4 <= 255
          /\ trunc.substr.panic = NoPanic
          /\ trunc.substr.val = <<hs[o + 1], hs[o + 2], hs[o + 3], hs[o + 4]>>
          /\ hs = TestDigestA => (o = 10 /\ trunc.substr.val = <<80, 239, 127, 25>>)

\* the window at the largest offset, ending at index 18
C9_Witness ==
    /\ trunc.fn = "dt"
    /\ trunc.offset = 15
    /\ trunc.substr.val = SubSeq(hs, 16, 19)

\* C10: dt returns the window with only the top bit of its first byte
\* cleared, and the integer taken from it is below 2^31.
C10_TopBitCleared ==
    trunc.fn = "dt" =>
      LET o == hs[20] % 16
      IN  /\ trunc.sbits.panic = NoPanic
          /\ trunc.sbits.val = <<hs[o + 1] % 128, hs[o + 2], hs[o + 3], hs[o + 4]>>
          /\ trunc.snum = [hi |-> (hs[o + 1] % 128) * 256 + hs[o + 2],
                           lo |-> hs[o + 3] * 256 + hs[o + 4]]
          /\ trunc.snum.hi < 32768
          /\ hs = TestDigestB => trunc.sbits.val = <<127, 239, 127, 25>>

\* a window whose first byte has its top bit set
C10_Witness ==
    /\ trunc.fn = "dt"
    /\ hs[trunc.offset + 1] = 255
    /\ trunc.sbits.val[1] = 127

=============================================================================
